---- MODULE Spec2Model ----
(***************************************************************************)
(* Energy-consumption tracking of pydaikin's Appliance                     *)
(* (src/pydaikin/daikin_base.py): the raw field mapping `values`, the      *)
(* per-category history `_energy_consumption_history` (a defaultdict of    *)
(* lists, newest entry first), the record step run at the end of every     *)
(* update_status, the windowed integrator delta_energy_consumption and the *)
(* derived power queries.                                                  *)
(*                                                                         *)
(* Time is counted in minutes.  Counters are kept in the device's integer  *)
(* units (total: Wh, cool/heat: 0.1 kWh); the source divides them by the   *)
(* positive constants 1000 and 10, which preserves every comparison the    *)
(* code makes.  A raw field is the list of tokens that split('/') yields.  *)
(***************************************************************************)
EXTENDS Integers, Sequences, FiniteSets, TLC

VARIABLES
    values,     \* self.values: raw field name -> token list (DOMAIN = keys present)
    history,    \* self._energy_consumption_history: category -> list (DOMAIN = keys present)
    clock,      \* datetime.utcnow(), minutes
    ret,        \* outcome of the last operation: returned value or raised exception
    observed,   \* history variable: the (today, yesterday) pairs the record step has extracted, per category
    full,       \* history variable: every snapshot ever inserted, per category, newest first, never pruned
    cycles,     \* number of update_status calls started so far
    ticks,      \* number of clock advances so far
    task        \* update_status coroutines in flight (fetch level)

vars == <<values, history, clock, ret, observed, full, cycles, ticks, task>>

-----------------------------------------------------------------------------
(* Program constants *)

ATTR_TOTAL == "total"
ATTR_COOL == "cool"
ATTR_HEAT == "heat"

\* for mode in (ATTR_TOTAL, ATTR_COOL, ATTR_HEAT)
ModeOrder == <<ATTR_TOTAL, ATTR_COOL, ATTR_HEAT>>
Modes == {ATTR_TOTAL, ATTR_COOL, ATTR_HEAT}

\* timedelta(hours=3), in minutes
POWER_CONSUMPTION_MAX_HISTORY == 180
\* timedelta(minutes=30) of current_total_power_consumption
TotalWindow == 30
\* timedelta(minutes=65) of last_hour_cool/heat_power_consumption
LastHourWindow == 65
\* timedelta(hours=1) / timedelta(minutes=30)
HourOverWindow == 2
\* _get_resource(self, resource, retries=3)
DefaultRetries == 3

NoExc == "none"

-----------------------------------------------------------------------------
(* Bounds of the model *)

MaxCycles == 3
MaxTicks == 2

\* clock advances between operations, minutes
Advances == {30, 180}

-----------------------------------------------------------------------------
(* Raw fields and their parsing *)

\* int(x) of one token: defined for decimal tokens, ValueError otherwise
IntOf == [t \in {"0", "1", "2", "3"} |-> CASE t = "0" -> 0 [] t = "1" -> 1 [] t = "2" -> 2 [] t = "3" -> 3]
IsNumeric(t) == t \in DOMAIN IntOf

RECURSIVE SumSeq(_)
SumSeq(s) == IF s = <<>> THEN 0 ELSE Head(s) + SumSeq(Tail(s))

\* dict.update
Update(vals, resp) ==
    [k \in DOMAIN vals \cup DOMAIN resp |-> IF k \in DOMAIN resp THEN resp[k] ELSE vals[k]]

\* _energy_consumption: None.split raises AttributeError when the key is
\* absent; a non-numeric token raises ValueError, which is caught and
\* turned into a None result.
energy_consumption(vals, dimension) ==
    IF dimension \notin DOMAIN vals
    THEN [exc |-> "AttributeError", none |-> TRUE, list |-> <<>>]
    ELSE IF \E i \in DOMAIN vals[dimension] : ~IsNumeric(vals[dimension][i])
    THEN [exc |-> NoExc, none |-> TRUE, list |-> <<>>]
    ELSE [exc |-> NoExc, none |-> FALSE,
          list |-> [i \in DOMAIN vals[dimension] |-> IntOf[vals[dimension][i]]]]

TodayDimension(mode) ==
    IF mode = ATTR_TOTAL THEN "datas"
    ELSE IF mode = ATTR_COOL THEN "curr_day_cool" ELSE "curr_day_heat"

YesterdayDimension(mode) ==
    IF mode = ATTR_TOTAL THEN "datas"
    ELSE IF mode = ATTR_COOL THEN "prev_1day_cool" ELSE "prev_1day_heat"

\* today_energy_consumption: [-1] of datas, or the sum of the hourly buckets;
\* subscripting or summing None raises TypeError
today_energy_consumption(vals, mode) ==
    LET r == energy_consumption(vals, TodayDimension(mode))
    IN  IF r.exc # NoExc THEN [exc |-> r.exc, val |-> 0]
        ELSE IF r.none THEN [exc |-> "TypeError", val |-> 0]
        ELSE IF mode = ATTR_TOTAL THEN [exc |-> NoExc, val |-> r.list[Len(r.list)]]
        ELSE [exc |-> NoExc, val |-> SumSeq(r.list)]

\* yesterday_energy_consumption: [-2] of datas (IndexError on a one-element
\* list), or the sum of the previous day's buckets
yesterday_energy_consumption(vals, mode) ==
    LET r == energy_consumption(vals, YesterdayDimension(mode))
    IN  IF r.exc # NoExc THEN [exc |-> r.exc, val |-> 0]
        ELSE IF r.none THEN [exc |-> "TypeError", val |-> 0]
        ELSE IF mode = ATTR_TOTAL
        THEN IF Len(r.list) < 2 THEN [exc |-> "IndexError", val |-> 0]
             ELSE [exc |-> NoExc, val |-> r.list[Len(r.list) - 1]]
        ELSE [exc |-> NoExc, val |-> SumSeq(r.list)]

\* values.get(key, None) or '0'
YearField(vals, key) ==
    IF key \notin DOMAIN vals \/ vals[key] = <<"">> THEN <<"0">> ELSE vals[key]

\* support_energy_consumption: sum(map(int, ...)) > 0; int() of a
\* non-numeric token raises ValueError, which nothing catches
support_energy_consumption(vals) ==
    LET toks == YearField(vals, "previous_year") \o YearField(vals, "this_year")
    IN  IF \E i \in DOMAIN toks : ~IsNumeric(toks[i])
        THEN [exc |-> "ValueError", val |-> FALSE]
        ELSE [exc |-> NoExc, val |-> SumSeq([i \in DOMAIN toks |-> IntOf[toks[i]]]) > 0]

-----------------------------------------------------------------------------
(* The history: a defaultdict(list) *)

\* reading self._energy_consumption_history[mode]
Get(hist, mode) == IF mode \in DOMAIN hist THEN hist[mode] ELSE <<>>

\* the side effect of that read on a defaultdict: the key now exists
Touch(hist, mode) == [k \in DOMAIN hist \cup {mode} |-> IF k \in DOMAIN hist THEN hist[k] ELSE <<>>]

\* self._energy_consumption_history[mode] = h
Put(hist, mode, h) == [k \in DOMAIN hist \cup {mode} |-> IF k = mode THEN h ELSE hist[k]]

EmptyDict == [k \in {} |-> <<>>]

-----------------------------------------------------------------------------
(* History Recorder: _register_energy_consumption_history *)

SetMin(S) == CHOOSE x \in S : \A y \in S : x <= y
MinOf(a, b) == IF a < b THEN a ELSE b

\* InsertFirst appending at the end of the list (list.append)
InsertLast(h, new_state) == h \o <<new_state>>

\* list.insert(0, new_state)
InsertFirst(h, new_state) == <<new_state>> \o h

\* the 0-based indices i with dt < utcnow() - POWER_CONSUMPTION_MAX_HISTORY
StaleIndices(h, now) ==
    {i \in 0..(Len(h) - 1) : h[i + 1].dt < now - POWER_CONSUMPTION_MAX_HISTORY}

\* PruneOld keeping one entry more: idx = min(...) + 2
PruneOldKeepTwo(h, now) ==
    LET idx == (IF StaleIndices(h, now) = {} THEN Len(h) ELSE SetMin(StaleIndices(h, now))) + 2
    IN  SubSeq(h, 1, MinOf(idx, Len(h)))

\* PruneOld without the "+ 1": h[:min(...)], which drops the anchor
PruneOldNoAnchor(h, now) ==
    LET idx == IF StaleIndices(h, now) = {} THEN Len(h) ELSE SetMin(StaleIndices(h, now))
    IN  SubSeq(h, 1, MinOf(idx, Len(h)))

\* idx = min(stale indices, default=len(h)) + 1 ;  h = h[:idx]
PruneOld(h, now) ==
    LET idx == (IF StaleIndices(h, now) = {} THEN Len(h) ELSE SetMin(StaleIndices(h, now))) + 1
    IN  SubSeq(h, 1, MinOf(idx, Len(h)))

\* StateUnchanged comparing the whole tuple, timestamp included
\* (new_state == old_state)
StateUnchangedWholeTuple(h, new_state) ==
    /\ Len(h) > 0
    /\ new_state = h[1]

\* StateUnchanged with the two counters of the old entry taken in the
\* wrong order (old_state[2] for today, old_state[1] for yesterday)
StateUnchangedSwapped(h, new_state) ==
    /\ Len(h) > 0
    /\ new_state.st = h[1].sy
    /\ new_state.sy = h[1].st


\* "State has not changed, nothing to register": both today and yesterday
\* equal those of the newest entry (old_state is (None, None, None) when
\* the list is empty)
StateUnchanged(h, new_state) ==
    /\ Len(h) > 0
    /\ new_state.st = h[1].st
    /\ new_state.sy = h[1].sy

\* RegisterMode pruning by age alone, on every refresh: all entries older
\* than the horizon are dropped, whether or not a snapshot was inserted
RECURSIVE FreshOnly(_, _)
FreshOnly(h, now) ==
    IF h = <<>> THEN <<>>
    ELSE IF Head(h).dt < now - POWER_CONSUMPTION_MAX_HISTORY THEN FreshOnly(Tail(h), now)
    ELSE <<Head(h)>> \o FreshOnly(Tail(h), now)

RegisterModeFreshOnly(vals, hist, now, mode) ==
    LET t == today_energy_consumption(vals, mode)
        y == yesterday_energy_consumption(vals, mode)
        new_state == [dt |-> now, st |-> t.val, sy |-> y.val]
        h == Get(hist, mode)
    IN  IF t.exc # NoExc THEN [exc |-> t.exc, hist |-> hist]
        ELSE IF y.exc # NoExc THEN [exc |-> y.exc, hist |-> hist]
        ELSE IF StateUnchanged(h, new_state) THEN [exc |-> NoExc, hist |-> Put(hist, mode, FreshOnly(h, now))]
        ELSE [exc |-> NoExc, hist |-> Put(hist, mode, FreshOnly(InsertFirst(h, new_state), now))]

\* One iteration of the loop over the modes.  The tuple new_state is built
\* first (either accessor may raise); the history is only touched after.
RegisterMode(vals, hist, now, mode) ==
    LET t == today_energy_consumption(vals, mode)
        y == yesterday_energy_consumption(vals, mode)
        new_state == [dt |-> now, st |-> t.val, sy |-> y.val]
        h == Get(hist, mode)
    IN  IF t.exc # NoExc THEN [exc |-> t.exc, hist |-> hist]
        ELSE IF y.exc # NoExc THEN [exc |-> y.exc, hist |-> hist]
        ELSE IF StateUnchanged(h, new_state) THEN [exc |-> NoExc, hist |-> Touch(hist, mode)]
        ELSE [exc |-> NoExc, hist |-> Put(hist, mode, PruneOld(InsertFirst(h, new_state), now))]

RECURSIVE RegisterFrom(_, _, _, _)
RegisterFrom(vals, hist, now, i) ==
    IF i > Len(ModeOrder) THEN [exc |-> NoExc, hist |-> hist]
    ELSE LET r == RegisterMode(vals, hist, now, ModeOrder[i])
         IN  IF r.exc # NoExc THEN r ELSE RegisterFrom(vals, r.hist, now, i + 1)

\* register_energy_consumption_history without the guard
\* "if not self.support_energy_consumption: return"
RegisterWithoutSupportGuard(vals, hist, now) ==
    LET s == support_energy_consumption(vals)
    IN  IF s.exc # NoExc THEN [exc |-> s.exc, hist |-> hist]
        ELSE RegisterFrom(vals, hist, now, 1)


\* _register_energy_consumption_history: nothing when the device does not
\* support energy consumption, else every mode in order; the first
\* exception ends the call and keeps what earlier modes have written.
register_energy_consumption_history(vals, hist, now) ==
    LET s == support_energy_consumption(vals)
    IN  IF s.exc # NoExc THEN [exc |-> s.exc, hist |-> hist]
        ELSE IF ~s.val THEN [exc |-> NoExc, hist |-> hist]
        ELSE RegisterFrom(vals, hist, now, 1)

-----------------------------------------------------------------------------
(* Power Integrator: delta_energy_consumption and the derived queries *)

\* DeltaLoop with the rollover branch forgetting "energy += st2"
RECURSIVE DeltaLoopNoNewDay(_, _, _, _, _, _)
DeltaLoopNoNewDay(h, i, energy, now, dt, early_break) ==
    IF i + 1 > Len(h) THEN energy
    ELSE IF h[i].dt <= now - dt THEN energy
    ELSE IF h[i].st > h[i + 1].st
    THEN IF early_break THEN energy + (h[i].st - h[i + 1].st)
         ELSE DeltaLoopNoNewDay(h, i + 1, energy + (h[i].st - h[i + 1].st), now, dt, early_break)
    ELSE IF h[i].sy >= h[i + 1].st
    THEN IF early_break THEN energy + (h[i].sy - h[i + 1].st)
         ELSE DeltaLoopNoNewDay(h, i + 1, energy + (h[i].sy - h[i + 1].st), now, dt, early_break)
    ELSE 0

\* DeltaLoop with the anomaly branch leaving the loop ("break") and so
\* returning the energy accumulated so far instead of 0
RECURSIVE DeltaLoopPartialSum(_, _, _, _, _, _)
DeltaLoopPartialSum(h, i, energy, now, dt, early_break) ==
    IF i + 1 > Len(h) THEN energy
    ELSE IF h[i].dt <= now - dt THEN energy
    ELSE IF h[i].st > h[i + 1].st
    THEN IF early_break THEN energy + (h[i].st - h[i + 1].st)
         ELSE DeltaLoopPartialSum(h, i + 1, energy + (h[i].st - h[i + 1].st), now, dt, early_break)
    ELSE IF h[i].sy >= h[i + 1].st
    THEN IF early_break THEN energy + (h[i].sy - h[i + 1].st) + h[i].st
         ELSE DeltaLoopPartialSum(h, i + 1, energy + (h[i].sy - h[i + 1].st) + h[i].st, now, dt, early_break)
    ELSE energy

\* DeltaLoop never taking the "if early_break: break" exit
RECURSIVE DeltaLoopNoEarlyBreak(_, _, _, _, _, _)
DeltaLoopNoEarlyBreak(h, i, energy, now, dt, early_break) ==
    IF i + 1 > Len(h) THEN energy
    ELSE IF h[i].dt <= now - dt THEN energy
    ELSE IF h[i].st > h[i + 1].st
    THEN DeltaLoopNoEarlyBreak(h, i + 1, energy + (h[i].st - h[i + 1].st), now, dt, early_break)
    ELSE IF h[i].sy >= h[i + 1].st
    THEN DeltaLoopNoEarlyBreak(h, i + 1, energy + (h[i].sy - h[i + 1].st) + h[i].st, now, dt, early_break)
    ELSE 0


\* DeltaLoop without the anomaly test: the rollover formula is applied to
\* every pair whose today counter has not grown
RECURSIVE DeltaLoopNoAnomalyTest(_, _, _, _, _, _)
DeltaLoopNoAnomalyTest(h, i, energy, now, dt, early_break) ==
    IF i + 1 > Len(h) THEN energy
    ELSE IF h[i].dt <= now - dt THEN energy
    ELSE IF h[i].st > h[i + 1].st
    THEN IF early_break THEN energy + (h[i].st - h[i + 1].st)
         ELSE DeltaLoopNoAnomalyTest(h, i + 1, energy + (h[i].st - h[i + 1].st), now, dt, early_break)
    ELSE IF early_break THEN energy + (h[i].sy - h[i + 1].st) + h[i].st
    ELSE DeltaLoopNoAnomalyTest(h, i + 1, energy + (h[i].sy - h[i + 1].st) + h[i].st, now, dt, early_break)


\* the loop over zip(history, history[1:]) from pair i on, with the energy
\* accumulated so far
RECURSIVE DeltaLoop(_, _, _, _, _, _)
DeltaLoop(h, i, energy, now, dt, early_break) ==
    IF i + 1 > Len(h) THEN energy
    ELSE LET dt2 == h[i].dt
             st2 == h[i].st
             sy2 == h[i].sy
             st1 == h[i + 1].st
         IN  IF dt2 <= now - dt THEN energy
             ELSE IF st2 > st1
             THEN IF early_break THEN energy + (st2 - st1)
                  ELSE DeltaLoop(h, i + 1, energy + (st2 - st1), now, dt, early_break)
             ELSE IF sy2 >= st1
             THEN IF early_break THEN energy + (sy2 - st1) + st2
                  ELSE DeltaLoop(h, i + 1, energy + (sy2 - st1) + st2, now, dt, early_break)
             ELSE 0

\* delta_energy_consumption(dt, mode, early_break) on a given list
DeltaOf(h, now, dt, early_break) == DeltaLoop(h, 1, 0, now, dt, early_break)

\* a returned value: None or a number
None == [none |-> TRUE, val |-> 0]
Num(n) == [none |-> FALSE, val |-> n]

\* delta_energy_consumption as a method: value returned and the history
\* afterwards (the defaultdict read creates the key)
delta_energy_consumption(hist, now, dt, mode, early_break) ==
    [val |-> Num(DeltaOf(Get(hist, mode), now, dt, early_break)), hist |-> Touch(hist, mode)]

\* if not len(self._energy_consumption_history): return  -- len counts keys
current_total_power_consumption(hist, now) ==
    IF Cardinality(DOMAIN hist) = 0 THEN [val |-> None, hist |-> hist]
    ELSE LET d == delta_energy_consumption(hist, now, TotalWindow, ATTR_TOTAL, FALSE)
         IN  [val |-> Num(d.val.val * HourOverWindow), hist |-> d.hist]

last_hour_cool_power_consumption(hist, now) ==
    IF Cardinality(DOMAIN hist) = 0 THEN [val |-> None, hist |-> hist]
    ELSE delta_energy_consumption(hist, now, LastHourWindow, ATTR_COOL, TRUE)

last_hour_heat_power_consumption(hist, now) ==
    IF Cardinality(DOMAIN hist) = 0 THEN [val |-> None, hist |-> hist]
    ELSE delta_energy_consumption(hist, now, LastHourWindow, ATTR_HEAT, TRUE)

-----------------------------------------------------------------------------
(* Inputs: what one update_status cycle merges into self.values *)

EmptyResp == [k \in {} |-> <<>>]

\* parse_response results of the resources fetched in one cycle, merged:
\* a device reporting no yearly energy; yearly energy alone; every field of
\* the three categories; then partial refreshes in which one category
\* grows, the day rolls over, or a cool field comes back malformed while
\* heat has grown
Responses ==
    { [previous_year |-> <<"0">>, this_year |-> <<"0", "0">>],
      [previous_year |-> <<"0">>, this_year |-> <<"0", "1">>],
      [this_year |-> <<"1">>, datas |-> <<"0", "1">>,
       curr_day_cool |-> <<"0", "1">>, prev_1day_cool |-> <<"0">>,
       curr_day_heat |-> <<"0">>, prev_1day_heat |-> <<"1">>],
      [datas |-> <<"0", "2">>],
      [datas |-> <<"2", "0">>, curr_day_cool |-> <<"0">>, prev_1day_cool |-> <<"1", "1">>],
      [curr_day_cool |-> <<"1", "1">>],
      [curr_day_cool |-> <<"x", "1">>, curr_day_heat |-> <<"1">>] }

\* windows of direct delta_energy_consumption calls
Windows == {TotalWindow, POWER_CONSUMPTION_MAX_HISTORY}

Tasks == {"t1"}

-----------------------------------------------------------------------------
(* State machine of the recorder and the reads (one refresh at a time) *)

Outcome(op, exc, val) == [op |-> op, exc |-> exc, val |-> val]

\* the modes whose (today, yesterday) pair the record step extracts: none
\* without support, else those before the first mode whose accessor raises
RECURSIVE ExtractedFrom(_, _)
ExtractedFrom(vals, i) ==
    IF i > Len(ModeOrder) THEN {}
    ELSE IF today_energy_consumption(vals, ModeOrder[i]).exc # NoExc
            \/ yesterday_energy_consumption(vals, ModeOrder[i]).exc # NoExc
    THEN {}
    ELSE {ModeOrder[i]} \cup ExtractedFrom(vals, i + 1)

Extracted(vals) ==
    IF support_energy_consumption(vals).exc = NoExc /\ support_energy_consumption(vals).val
    THEN ExtractedFrom(vals, 1) ELSE {}

PairOf(vals, mode) ==
    <<today_energy_consumption(vals, mode).val, yesterday_energy_consumption(vals, mode).val>>

\* no update_status call in flight
IdleTask == [pc |-> "idle", todo |-> 0, retries |-> 0, attempts |-> 0, last |-> "none", overlapped |-> FALSE]

\* the pairs the record step extracts from vals, added to those seen so far
Recorded(vals) ==
    [m \in Modes |->
        IF m \in Extracted(vals) THEN observed[m] \cup {PairOf(vals, m)} ELSE observed[m]]

\* the snapshots the record step has inserted (the new head of a list),
\* put in front of those inserted before; nothing is ever removed
Unpruned(hist2) ==
    [m \in Modes |->
        IF /\ Len(Get(hist2, m)) > 0
           /\ (Len(Get(history, m)) = 0 \/ Get(hist2, m)[1] # Get(history, m)[1])
        THEN <<Get(hist2, m)[1]>> \o full[m]
        ELSE full[m]]

\* Appliance.__init__
Init ==
    /\ values = EmptyResp
    /\ history = EmptyDict
    /\ clock = 0
    /\ ret = Outcome("init", NoExc, None)
    /\ observed = [m \in Modes |-> {}]
    /\ full = [m \in Modes |-> <<>>]
    /\ cycles = 0
    /\ ticks = 0
    /\ task = [p \in Tasks |-> IdleTask]

\* time passes between operations
Tick(d) ==
    /\ ticks < MaxTicks
    /\ clock' = clock + d
    /\ ticks' = ticks + 1
    /\ ret' = Outcome("tick", NoExc, None)
    /\ UNCHANGED <<values, history, observed, full, cycles, task>>

\* update_status with every fetch successful: merge, then the record step.
\* The record step runs without suspension, so all its utcnow() reads are
\* taken to fall in the same minute, the current clock.
UpdateStatus(resp) ==
    /\ cycles < MaxCycles
    /\ LET vals == Update(values, resp)
           r == register_energy_consumption_history(vals, history, clock)
       IN  /\ values' = vals
           /\ history' = r.hist
           /\ ret' = Outcome("update_status", r.exc, None)
           /\ observed' = Recorded(vals)
           /\ full' = Unpruned(r.hist)
    /\ cycles' = cycles + 1
    /\ UNCHANGED <<clock, ticks, task>>

\* a direct delta_energy_consumption call
DeltaCall(dt, mode, early_break) ==
    /\ LET r == delta_energy_consumption(history, clock, dt, mode, early_break)
       IN  /\ history' = r.hist
           /\ ret' = Outcome("delta_energy_consumption", NoExc, r.val)
    /\ UNCHANGED <<values, clock, observed, full, cycles, ticks, task>>

CurrentTotalPower ==
    /\ LET r == current_total_power_consumption(history, clock)
       IN  /\ history' = r.hist
           /\ ret' = Outcome("current_total_power_consumption", NoExc, r.val)
    /\ UNCHANGED <<values, clock, observed, full, cycles, ticks, task>>

LastHourCool ==
    /\ LET r == last_hour_cool_power_consumption(history, clock)
       IN  /\ history' = r.hist
           /\ ret' = Outcome("last_hour_cool_power_consumption", NoExc, r.val)
    /\ UNCHANGED <<values, clock, observed, full, cycles, ticks, task>>

LastHourHeat ==
    /\ LET r == last_hour_heat_power_consumption(history, clock)
       IN  /\ history' = r.hist
           /\ ret' = Outcome("last_hour_heat_power_consumption", NoExc, r.val)
    /\ UNCHANGED <<values, clock, observed, full, cycles, ticks, task>>

Next ==
    \/ \E d \in Advances : Tick(d)
    \/ \E resp \in Responses : UpdateStatus(resp)
    \/ \E dt \in Windows, mode \in Modes, early_break \in BOOLEAN : DeltaCall(dt, mode, early_break)
    \/ CurrentTotalPower
    \/ LastHourCool
    \/ LastHourHeat

Spec == Init /\ [][Next]_vars

-----------------------------------------------------------------------------
(* The integrator on its own: every well-formed history of bounded length *)

MaxLen == 3

\* timestamps at ages 180, 65, 30 and 10 minutes when read at ReadClock
Stamps == {0, 115, 150, 170}
ReadClock == POWER_CONSUMPTION_MAX_HISTORY
TodayCounters == {0, 1, 2}
YesterdayCounters == {0, 2}
AllWindows == {TotalWindow, LastHourWindow, POWER_CONSUMPTION_MAX_HISTORY}

Entries == [dt : Stamps, st : TodayCounters, sy : YesterdayCounters]

\* what the recorder produces: newest first, neighbours differing in
\* today or yesterday
WellFormed(h) ==
    \A i \in 1..(Len(h) - 1) :
        /\ h[i].dt >= h[i + 1].dt
        /\ (h[i].st # h[i + 1].st \/ h[i].sy # h[i + 1].sy)

Histories == {h \in UNION {[1..n -> Entries] : n \in 0..MaxLen} : WellFormed(h)}

InitDelta ==
    /\ \E h \in Histories : history = [m \in Modes |-> h] /\ full = [m \in Modes |-> h]
    /\ values = EmptyResp
    /\ clock = ReadClock
    /\ ret = Outcome("init", NoExc, None)
    /\ observed = [m \in Modes |-> {}]
    /\ cycles = 0
    /\ ticks = 0
    /\ task = [p \in Tasks |-> IdleTask]

NextDelta ==
    \/ \E dt \in AllWindows, mode \in Modes, early_break \in BOOLEAN : DeltaCall(dt, mode, early_break)
    \/ CurrentTotalPower
    \/ LastHourCool
    \/ LastHourHeat

SpecDelta == InitDelta /\ [][NextDelta]_vars

-----------------------------------------------------------------------------
(* Reference integrator, stated without the loop *)

\* what one (newer, older) pair adds when it is no anomaly
Contribution(newer, older) ==
    IF newer.st > older.st THEN newer.st - older.st
    ELSE (newer.sy - older.st) + newer.st

Anomaly(newer, older) == newer.st <= older.st /\ newer.sy < older.st

\* the number of pairs the walk visits: those before the first pair whose
\* newer entry has timestamp <= now - window
InWindowPairs(h, now, dt) ==
    LET out == {j \in 1..(Len(h) - 1) : h[j].dt <= now - dt}
    IN  IF out # {} THEN SetMin(out) - 1
        ELSE IF Len(h) = 0 THEN 0 ELSE Len(h) - 1

ReferenceDelta(h, now, dt) ==
    SumSeq([j \in 1..InWindowPairs(h, now, dt) |-> Contribution(h[j], h[j + 1])])

AnomalyReached(h, now, dt) ==
    \E j \in 1..InWindowPairs(h, now, dt) : Anomaly(h[j], h[j + 1])

\* the scenarios of the specification, at clock 100
GrowthExample == <<[dt |-> 100, st |-> 50, sy |-> 40], [dt |-> 90, st |-> 45, sy |-> 40]>>
RolloverExample == <<[dt |-> 100, st |-> 3, sy |-> 50], [dt |-> 90, st |-> 50, sy |-> 40]>>

\* C9: delta_energy_consumption(window, category) equals the reference
\* integrator: 0 for an empty or single-entry history; otherwise, walking
\* the pairs newest-first up to the first pair whose newer timestamp is
\* <= now - window, the sum of newer.today - older.today for a growing
\* pair and of (newer.yesterday - older.today) + newer.today for a rolled
\* over one; the growth example gives 5 and the rollover example 3; the
\* value current_total_power_consumption returns is twice that of the
\* 30-minute window.
C9_DeltaEqualsReference ==
    /\ \A m \in DOMAIN history, dt \in AllWindows :
          /\ Len(history[m]) <= 1 => DeltaOf(history[m], clock, dt, FALSE) = 0
          /\ ~AnomalyReached(history[m], clock, dt)
                => DeltaOf(history[m], clock, dt, FALSE) = ReferenceDelta(history[m], clock, dt)
    /\ DeltaOf(GrowthExample, 100, TotalWindow, FALSE) = 5
    /\ DeltaOf(RolloverExample, 100, TotalWindow, FALSE) = 3
    /\ (/\ ret.op = "current_total_power_consumption"
        /\ ~AnomalyReached(Get(history, ATTR_TOTAL), clock, TotalWindow))
          => ret.val = Num(HourOverWindow * ReferenceDelta(Get(history, ATTR_TOTAL), clock, TotalWindow))

\* a direct call has returned the sum of two in-window pairs, the newer
\* one growing and the older one a day rollover
C9_Witness ==
    /\ ret.op = "delta_energy_consumption"
    /\ Len(history[ATTR_TOTAL]) = 3
    /\ InWindowPairs(history[ATTR_TOTAL], clock, TotalWindow) = 2
    /\ history[ATTR_TOTAL][1].st > history[ATTR_TOTAL][2].st
    /\ history[ATTR_TOTAL][2].st <= history[ATTR_TOTAL][3].st
    /\ history[ATTR_TOTAL][2].sy >= history[ATTR_TOTAL][3].st
    /\ history[ATTR_TOTAL][2].st > 0
    /\ ret.val = Num(ReferenceDelta(history[ATTR_TOTAL], clock, TotalWindow))
    /\ ret.val.val >= 3

\* C10: when the walk without early break reaches an in-window pair with
\* newer.today <= older.today and newer.yesterday < older.today, the call
\* returns 0 whatever newer pairs have contributed, and raises nothing.
C10_AnomalyReturnsZero ==
    /\ \A m \in DOMAIN history, dt \in AllWindows :
          AnomalyReached(history[m], clock, dt) => DeltaOf(history[m], clock, dt, FALSE) = 0
    /\ (/\ ret.op = "current_total_power_consumption"
        /\ AnomalyReached(Get(history, ATTR_TOTAL), clock, TotalWindow))
          => (ret.val = Num(0) /\ ret.exc = NoExc)

\* a direct call has returned 0 although the newest pair, inside every
\* window, had grown: the second pair is the anomaly
C10_Witness ==
    /\ ret.op = "delta_energy_consumption"
    /\ ret.val = Num(0)
    /\ ret.exc = NoExc
    /\ Len(history[ATTR_TOTAL]) = 3
    /\ InWindowPairs(history[ATTR_TOTAL], clock, TotalWindow) = 2
    /\ history[ATTR_TOTAL][1].st > history[ATTR_TOTAL][2].st
    /\ Anomaly(history[ATTR_TOTAL][2], history[ATTR_TOTAL][3])

-----------------------------------------------------------------------------
(* Claims about the recorder, checked under Spec *)

Supported(vals) ==
    support_energy_consumption(vals).exc = NoExc /\ support_energy_consumption(vals).val

\* the category's raw fields are missing or non-numeric
ExtractionFails(vals, mode) ==
    \/ today_energy_consumption(vals, mode).exc # NoExc
    \/ yesterday_energy_consumption(vals, mode).exc # NoExc

\* the step is one update_status call
IsUpdateStep == cycles' = cycles + 1 /\ ret'.op = "update_status"

StaleCount(h, now) == Cardinality(StaleIndices(h, now))

Sorted(h) == \A i \in 1..(Len(h) - 1) : h[i].dt >= h[i + 1].dt

\* C1: when a refresh of a supported device finds the raw fields of some
\* category missing or non-numeric, no exception is raised, that
\* category's history is left unchanged, and the history of every other
\* category is updated in the same cycle as its record step updates it.
C1_ExtractionFailureIsLocal ==
    [][(/\ IsUpdateStep
        /\ Supported(values')
        /\ \E m \in Modes : ExtractionFails(values', m))
          => /\ ret'.exc = NoExc
             /\ \A m \in Modes :
                   IF ExtractionFails(values', m)
                   THEN Get(history', m) = Get(history, m)
                   ELSE Get(history', m) = Get(RegisterMode(values', history, clock', m).hist, m)]_vars

\* C2 as stated: after every record step, inserting or discarding, the
\* history of each category holds at most one entry older than the time
\* of the step minus 3 hours.
C2_AtMostOneStaleAfterEveryRecord ==
    (/\ ret.op = "update_status"
     /\ ret.exc = NoExc
     /\ Supported(values))
      => \A m \in Modes : StaleCount(Get(history, m), clock) <= 1

\* C2 amended: after every record step that inserts a snapshot into a
\* category's history, that history holds at most one entry older than
\* the time of the step minus 3 hours.
C2_AtMostOneStaleAfterInsert ==
    [][\A m \in Modes :
          Get(history', m) # Get(history, m) => StaleCount(Get(history', m), clock') <= 1]_vars

\* an insertion has just pruned a list down to the new entry and one
\* anchor older than the horizon
C2_Witness ==
    /\ ret.op = "update_status"
    /\ Cardinality(observed[ATTR_TOTAL]) = 3
    /\ Len(Get(history, ATTR_TOTAL)) = 2
    /\ history[ATTR_TOTAL][1].dt = clock
    /\ StaleCount(history[ATTR_TOTAL], clock) = 1

\* C4: as long as no snapshot has ever been recorded, the three power
\* queries return None, whatever operations have run.
C4_EmptyHistoryReadsUnavailable ==
    (\A m \in Modes : observed[m] = {})
      => /\ current_total_power_consumption(history, clock).val = None
         /\ last_hour_cool_power_consumption(history, clock).val = None
         /\ last_hour_heat_power_consumption(history, clock).val = None
         /\ ret.op \in {"current_total_power_consumption",
                        "last_hour_cool_power_consumption",
                        "last_hour_heat_power_consumption"} => ret.val = None

\* C5: a refresh whose (today, yesterday) for a category equals that of
\* the newest entry leaves the category's history unchanged, and while
\* every refresh so far has observed one and the same pair for a category
\* its history holds exactly one entry, carrying that pair.
C5_Dedup ==
    [][\A m \in Modes :
          /\ (/\ IsUpdateStep
              /\ m \in Extracted(values')
              /\ Len(Get(history, m)) > 0
              /\ PairOf(values', m) = <<history[m][1].st, history[m][1].sy>>)
                => Get(history', m) = Get(history, m)
          /\ Cardinality(observed'[m]) = 1
                => /\ Len(Get(history', m)) = 1
                   /\ <<history'[m][1].st, history'[m][1].sy>> \in observed'[m]]_vars

\* three refreshes, at different times, have all observed the same pair
C5_Witness ==
    /\ cycles = 3
    /\ ticks = 2
    /\ ret.op = "update_status"
    /\ Cardinality(observed[ATTR_COOL]) = 1
    /\ Len(Get(history, ATTR_COOL)) = 1
    /\ history[ATTR_COOL][1].dt = 0
    /\ clock > POWER_CONSUMPTION_MAX_HISTORY

\* C6: every category's history is ordered newest-first: timestamps are
\* non-increasing by index.
C6_Ordered == \A m \in DOMAIN history : Sorted(history[m])

\* a history of three entries recorded at two different times
C6_Witness ==
    /\ Len(Get(history, ATTR_TOTAL)) = 3
    /\ history[ATTR_TOTAL][1].dt > history[ATTR_TOTAL][3].dt

\* the list an inserting record step prunes: the new entry in front of
\* the former list
BeforePrune(m) == <<history'[m][1]>> \o Get(history, m)

\* C7: when a record step inserts a snapshot and prunes with cutoff
\* now - 3h, every entry with timestamp >= cutoff is retained; if some
\* entry was older than the cutoff, exactly the newest such entry remains
\* and all older ones are dropped; otherwise the list is unchanged by
\* the pruning.
C7_PruneKeepsHorizonAndAnchor ==
    [][\A m \in Modes :
          Get(history', m) # Get(history, m)
            => LET pre == BeforePrune(m)
                   post == history'[m]
                   stale == {i \in 1..Len(pre) : pre[i].dt < clock' - POWER_CONSUMPTION_MAX_HISTORY}
               IN  /\ \A i \in 1..Len(pre) :
                         pre[i].dt >= clock' - POWER_CONSUMPTION_MAX_HISTORY
                           => i <= Len(post) /\ post[i] = pre[i]
                   /\ stale = {} => post = pre
                   /\ stale # {}
                         => /\ post = SubSeq(pre, 1, SetMin(stale))
                            /\ StaleCount(post, clock') = 1
                            /\ \A i \in stale : pre[i].dt <= post[Len(post)].dt]_vars

\* an insertion has found two entries older than the cutoff and kept one
C7_Witness ==
    /\ ret.op = "update_status"
    /\ Cardinality(observed[ATTR_TOTAL]) = 3
    /\ Len(Get(history, ATTR_TOTAL)) = 2
    /\ history[ATTR_TOTAL][1].dt = clock
    /\ history[ATTR_TOTAL][2].dt < clock - POWER_CONSUMPTION_MAX_HISTORY
    /\ ret.exc = NoExc
    /\ ticks = MaxTicks

\* C8: once a category's history holds a snapshot it is never empty again.
C8_NeverEmptyAgain ==
    [][\A m \in Modes : Get(history, m) # <<>> => Get(history', m) # <<>>]_vars

\* a read after three recordings of which pruning has dropped one
C8_Witness ==
    /\ ret.op = "current_total_power_consumption"
    /\ Cardinality(observed[ATTR_TOTAL]) = 3
    /\ Len(Get(history, ATTR_TOTAL)) = 2
    /\ StaleCount(history[ATTR_TOTAL], clock) = 1

-----------------------------------------------------------------------------
(* update_status at the level of its fetches: one step per attempt of     *)
(* _get_resource, the coroutine being suspended while a request is out    *)

\* number of resources of one update_status call
ResourceCounts == {0, 1, 2}

\* what a successful fetch returns
FetchResponses ==
    { [previous_year |-> <<"0">>, this_year |-> <<"0", "1">>],
      [this_year |-> <<"1">>, datas |-> <<"0", "1">>,
       curr_day_cool |-> <<"0", "1">>, prev_1day_cool |-> <<"0">>,
       curr_day_heat |-> <<"0">>, prev_1day_heat |-> <<"1">>],
      [datas |-> <<"0", "2">>] }

\* if retries == 0: raise error  -- with only one retry left (off by one)
RetriesExhaustedEarly(retries) == retries = 1

\* if retries == 0: raise error
RetriesExhausted(retries) == retries = 0

\* the end of update_status: the record step, run without suspension
\* (overlapped notes whether another call was suspended in a fetch then)
Finish(p, vals, last) ==
    LET r == register_energy_consumption_history(vals, history, clock)
    IN  /\ values' = vals
        /\ history' = r.hist
        /\ observed' = Recorded(vals)
        /\ full' = Unpruned(r.hist)
        /\ ret' = Outcome("update_status", r.exc, None)
        /\ task' = [task EXCEPT ![p] =
               [pc |-> IF r.exc = NoExc THEN "done" ELSE "raised", todo |-> 0,
                retries |-> task[p].retries, attempts |-> task[p].attempts + (IF last = "ok" THEN 1 ELSE 0),
                last |-> last,
                overlapped |-> \E q \in DOMAIN task \ {p} : task[q].pc = "fetch"]]

\* update_status(resources) is called: the first request goes out, or,
\* with no resource to fetch, the record step runs at once
StartUpdate(p, n) ==
    /\ task[p].pc # "fetch"
    /\ cycles < MaxCycles
    /\ cycles' = cycles + 1
    /\ IF n = 0
       THEN Finish(p, values, "none")
       ELSE /\ task' = [task EXCEPT ![p] =
                   [pc |-> "fetch", todo |-> n, retries |-> DefaultRetries, attempts |-> 0, last |-> "none", overlapped |-> FALSE]]
            /\ UNCHANGED <<values, history, observed, full, ret>>
    /\ UNCHANGED <<clock, ticks>>

\* _run_get_resource returns: values.update, then the next resource's
\* request goes out with retries=3 again, or the record step runs
FetchOk(p, resp) ==
    /\ task[p].pc = "fetch"
    /\ IF task[p].todo = 1
       THEN Finish(p, Update(values, resp), "ok")
       ELSE /\ values' = Update(values, resp)
            /\ task' = [task EXCEPT ![p] =
                   [pc |-> "fetch", todo |-> task[p].todo - 1, retries |-> DefaultRetries,
                    attempts |-> 0, last |-> "ok", overlapped |-> FALSE]]
            /\ UNCHANGED <<history, observed, full, ret>>
    /\ UNCHANGED <<clock, cycles, ticks>>

\* FetchDisconnect with the record step in a "finally": when the retries
\* are exhausted the history is updated from what has been merged so far
FetchDisconnectThenRecord(p) ==
    /\ task[p].pc = "fetch"
    /\ IF RetriesExhausted(task[p].retries)
       THEN LET r == register_energy_consumption_history(values, history, clock)
            IN  /\ history' = r.hist
                /\ full' = Unpruned(r.hist)
                /\ observed' = Recorded(values)
                /\ task' = [task EXCEPT ![p] =
                       [pc |-> "raised", todo |-> task[p].todo, retries |-> task[p].retries,
                        attempts |-> task[p].attempts + 1, last |-> "disconnect", overlapped |-> FALSE]]
                /\ ret' = Outcome("update_status", "ServerDisconnectedError", None)
       ELSE /\ task' = [task EXCEPT ![p] =
                   [pc |-> "fetch", todo |-> task[p].todo, retries |-> task[p].retries - 1,
                    attempts |-> task[p].attempts + 1, last |-> "disconnect", overlapped |-> FALSE]]
            /\ UNCHANGED <<ret, history, full, observed>>
    /\ UNCHANGED <<values, clock, cycles, ticks>>


\* _run_get_resource raises ServerDisconnectedError: raise when no retry
\* is left, else _get_resource(resource, retries - 1)
FetchDisconnect(p) ==
    /\ task[p].pc = "fetch"
    /\ IF RetriesExhausted(task[p].retries)
       THEN /\ task' = [task EXCEPT ![p] =
                   [pc |-> "raised", todo |-> task[p].todo, retries |-> task[p].retries,
                    attempts |-> task[p].attempts + 1, last |-> "disconnect", overlapped |-> FALSE]]
            /\ ret' = Outcome("update_status", "ServerDisconnectedError", None)
       ELSE /\ task' = [task EXCEPT ![p] =
                   [pc |-> "fetch", todo |-> task[p].todo, retries |-> task[p].retries - 1,
                    attempts |-> task[p].attempts + 1, last |-> "disconnect", overlapped |-> FALSE]]
            /\ UNCHANGED ret
    /\ UNCHANGED <<values, history, observed, full, clock, cycles, ticks>>

\* _run_get_resource raises anything else (parse_response's ValueError):
\* nothing catches it
FetchError(p) ==
    /\ task[p].pc = "fetch"
    /\ task' = [task EXCEPT ![p] =
           [pc |-> "raised", todo |-> task[p].todo, retries |-> task[p].retries,
            attempts |-> task[p].attempts + 1, last |-> "error", overlapped |-> FALSE]]
    /\ ret' = Outcome("update_status", "ValueError", None)
    /\ UNCHANGED <<values, history, observed, full, clock, cycles, ticks>>

\* time passes while requests are out
TickFetch(d) ==
    /\ ticks < MaxTicks
    /\ clock' = clock + d
    /\ ticks' = ticks + 1
    /\ UNCHANGED <<values, history, ret, observed, full, cycles, task>>

NextFetch ==
    \/ \E p \in Tasks, n \in ResourceCounts : StartUpdate(p, n)
    \/ \E p \in Tasks, resp \in FetchResponses : FetchOk(p, resp)
    \/ \E p \in Tasks : FetchDisconnect(p)
    \/ \E p \in Tasks : FetchError(p)
    \/ TickFetch(POWER_CONSUMPTION_MAX_HISTORY + TotalWindow)

SpecFetch == Init /\ [][NextFetch]_vars

\* C3 as stated: a fetch makes at most 3 attempts.
C3_AtMostThreeAttempts == \A p \in Tasks : task[p].attempts <= 3

\* C3 amended: the fetch of one resource makes at most 4 attempts in total
\* (the first and retries=3 more) when every attempt ends in
\* ServerDisconnectedError; after the 4th it stops retrying and the error
\* reaches the caller; a successful attempt ends the retrying at once (the
\* next resource starts afresh, or update_status goes on to its end).
C3_AtMostFourAttempts ==
    \A p \in Tasks :
        /\ task[p].attempts <= DefaultRetries + 1
        /\ task[p].pc = "fetch"
              => task[p].retries >= 0 /\ task[p].attempts = DefaultRetries - task[p].retries
        /\ (task[p].pc = "fetch" /\ task[p].last = "disconnect") => task[p].attempts <= DefaultRetries
        /\ (task[p].pc = "raised" /\ task[p].last = "disconnect")
              => task[p].attempts = DefaultRetries + 1 /\ ret.exc # NoExc
        /\ task[p].last = "ok"
              => task[p].pc \in {"done", "raised"} \/ (task[p].pc = "fetch" /\ task[p].attempts = 0)

\* four attempts have all ended in a disconnect and the error was raised
C3_Witness ==
    \E p \in Tasks :
        /\ task[p].pc = "raised"
        /\ task[p].last = "disconnect"
        /\ task[p].attempts = 4
        /\ ret = Outcome("update_status", "ServerDisconnectedError", None)

-----------------------------------------------------------------------------
(* Claims about the reads and the frame of the record step, under Spec *)

ReadOps ==
    {"delta_energy_consumption", "current_total_power_consumption",
     "last_hour_cool_power_consumption", "last_hour_heat_power_consumption"}

\* the step is a call of delta_energy_consumption or of a power query
IsReadStep == ret'.op \in ReadOps

\* C11: delta_energy_consumption and the derived power queries are pure
\* reads: a call leaves the history of every category as it was, and a
\* read repeated at the same time, with no refresh in between, returns
\* what it returned before the call.
C11_ReadsArePure ==
    [][IsReadStep
         => /\ \A m \in Modes : Get(history', m) = Get(history, m)
            /\ \A dt \in Windows, m \in Modes, early_break \in BOOLEAN :
                  delta_energy_consumption(history', clock', dt, m, early_break).val
                    = delta_energy_consumption(history, clock, dt, m, early_break).val
            /\ current_total_power_consumption(history', clock').val
                 = current_total_power_consumption(history, clock).val
            /\ last_hour_cool_power_consumption(history', clock').val
                 = last_hour_cool_power_consumption(history, clock).val
            /\ last_hour_heat_power_consumption(history', clock').val
                 = last_hour_heat_power_consumption(history, clock).val]_vars


\* C12: a refresh that runs while support_energy_consumption is false
\* (previous_year and this_year absent or summing to 0) changes no
\* category's history; and as long as no refresh of a supporting device
\* has extracted a pair, which includes every device that never reports
\* support, the history of every category is empty.
C12_UnsupportedRecordsNothing ==
    [][/\ (/\ IsUpdateStep
           /\ support_energy_consumption(values').exc = NoExc
           /\ ~support_energy_consumption(values').val)
             => history' = history /\ full' = full
       /\ (\A m \in Modes : observed'[m] = {})
             => \A m \in Modes : Get(history', m) = <<>>]_vars

\* a device that had recorded a snapshot stopped reporting yearly energy;
\* a later refresh brought a changed total counter and recorded nothing
C12_Witness ==
    /\ ret = Outcome("update_status", NoExc, None)
    /\ cycles = 3
    /\ ~Supported(values)
    /\ ~ExtractionFails(values, ATTR_TOTAL)
    /\ Len(Get(history, ATTR_TOTAL)) = 1
    /\ PairOf(values, ATTR_TOTAL) # <<history[ATTR_TOTAL][1].st, history[ATTR_TOTAL][1].sy>>


SameCounters(a, b) == a.st = b.st /\ a.sy = b.sy

\* C18: in every reachable state any two neighbouring entries of a
\* category's history differ in today or in yesterday.
C18_NoAdjacentDuplicates ==
    \A m \in DOMAIN history :
        \A i \in 1..(Len(history[m]) - 1) : ~SameCounters(history[m][i], history[m][i + 1])

\* the same pair has been seen by two refreshes in a row, the second at a
\* later time, between recordings of other pairs: one entry stands for both
C18_Witness ==
    /\ cycles = 3
    /\ ticks > 0
    /\ ret = Outcome("update_status", NoExc, None)
    /\ Cardinality(observed[ATTR_TOTAL]) = 2
    /\ Len(Get(history, ATTR_TOTAL)) = 2
    /\ history[ATTR_TOTAL][1].dt < clock
    /\ PairOf(values, ATTR_TOTAL) = <<history[ATTR_TOTAL][1].st, history[ATTR_TOTAL][1].sy>>

\* C17: for every sequence of refreshes and every window of at most 3
\* hours (the 30 and 65 minutes of the power queries among them),
\* delta_energy_consumption over the pruned history returns the same value
\* as the same computation over the full, never-pruned sequence of the
\* snapshots that were recorded, with and without early_break.
C17_PruningInvisible ==
    \A m \in Modes, dt \in AllWindows, early_break \in BOOLEAN :
        DeltaOf(Get(history, m), clock, dt, early_break) = DeltaOf(full[m], clock, dt, early_break)

\* pruning has dropped a recorded snapshot, and a read over the 3 hours
\* has returned a positive amount that comes from the pair made of the
\* newest entry and the anchor kept beyond the horizon
C17_Witness ==
    /\ ret.op = "delta_energy_consumption"
    /\ Len(full[ATTR_TOTAL]) = 3
    /\ Len(Get(history, ATTR_TOTAL)) = 2
    /\ history[ATTR_TOTAL][2].dt < clock - POWER_CONSUMPTION_MAX_HISTORY
    /\ ret.val = Num(DeltaOf(full[ATTR_TOTAL], clock, POWER_CONSUMPTION_MAX_HISTORY, FALSE))
    /\ ret.val.val > 0

NewestPair(h) == <<h[1].st, h[1].sy>>

\* the refresh brings counters for the category that differ from those
\* of its newest entry
PairChanged(m) ==
    /\ ~ExtractionFails(values', m)
    /\ Len(Get(history, m)) > 0
    /\ PairOf(values', m) # NewestPair(history[m])

\* the refresh brings the counters of the category's newest entry again
PairUnchanged(m) ==
    /\ ~ExtractionFails(values', m)
    /\ Len(Get(history, m)) > 0
    /\ PairOf(values', m) = NewestPair(history[m])

\* C15: in a refresh of a supporting device where category A's
\* (today, yesterday) has changed and category B's has not, A's history
\* gains an entry, stamped with the time of the refresh and carrying the
\* new pair, while B's history is left as it was; and the record step on
\* one category changes no other category's list.
C15_CategoriesIndependent ==
    [][/\ \A a \in Modes, b \in Modes :
             (IsUpdateStep /\ Supported(values') /\ PairChanged(a) /\ PairUnchanged(b))
               => /\ Len(Get(history', a)) > 0
                  /\ history'[a][1].dt = clock'
                  /\ NewestPair(history'[a]) = PairOf(values', a)
                  /\ Get(history', b) = Get(history, b)
       /\ \A m \in Modes, other \in Modes :
             other # m
               => Get(RegisterMode(values', history, clock', m).hist, other) = Get(history, other)]_vars

-----------------------------------------------------------------------------
(* Claims about the integrator, under SpecDelta *)

\* what the newest pair alone yields
NewestPairOnly(h, now, dt) ==
    IF Len(h) < 2 THEN 0
    ELSE IF h[1].dt <= now - dt THEN 0
    ELSE IF Anomaly(h[1], h[2]) THEN 0
    ELSE Contribution(h[1], h[2])

\* C13: with early_break set, delta_energy_consumption evaluates at most
\* the newest pair: it returns that pair's contribution when the newest
\* entry's timestamp is inside the window (0 when the pair is an anomaly)
\* and 0 otherwise, whatever the older pairs contain; on an appliance whose
\* history holds entries, last_hour_cool_power_consumption and
\* last_hour_heat_power_consumption return exactly this for the
\* 65-minute window.
C13_EarlyBreakNewestPairOnly ==
    /\ \A m \in DOMAIN history, dt \in AllWindows :
          DeltaOf(history[m], clock, dt, TRUE) = NewestPairOnly(history[m], clock, dt)
    /\ ret.op = "last_hour_cool_power_consumption"
          => ret.val = Num(NewestPairOnly(Get(history, ATTR_COOL), clock, LastHourWindow))
    /\ ret.op = "last_hour_heat_power_consumption"
          => ret.val = Num(NewestPairOnly(Get(history, ATTR_HEAT), clock, LastHourWindow))

\* the last-hour query has returned the growth of the newest pair although
\* the second pair, also inside the 65 minutes, is an anomaly
C13_Witness ==
    /\ ret.op = "last_hour_cool_power_consumption"
    /\ Len(history[ATTR_COOL]) = 3
    /\ InWindowPairs(history[ATTR_COOL], clock, LastHourWindow) = 2
    /\ history[ATTR_COOL][1].st > history[ATTR_COOL][2].st
    /\ Anomaly(history[ATTR_COOL][2], history[ATTR_COOL][3])
    /\ ret.val = Num(history[ATTR_COOL][1].st - history[ATTR_COOL][2].st)
    /\ DeltaOf(history[ATTR_COOL], clock, LastHourWindow, FALSE) = 0


NonNegative(h) == \A i \in 1..Len(h) : h[i].st >= 0 /\ h[i].sy >= 0

\* C19: for every history whose today and yesterday counters are
\* non-negative, and every window, category and early_break setting,
\* delta_energy_consumption returns a value >= 0, day rollovers and
\* anomalies included, and so does every power query that returns a number.
C19_NeverNegative ==
    /\ \A m \in DOMAIN history, dt \in AllWindows, early_break \in BOOLEAN :
          NonNegative(history[m]) => DeltaOf(history[m], clock, dt, early_break) >= 0
    /\ (ret.op \in ReadOps /\ ret.val # None) => ret.val.val >= 0

\* a power query has returned 0 for a history whose newest pair is a day
\* rollover and whose second pair, also inside the window, is an anomaly
\* to which the rollover formula would give a negative amount
C19_Witness ==
    /\ ret.op = "current_total_power_consumption"
    /\ ret.val = Num(0)
    /\ Len(history[ATTR_TOTAL]) = 3
    /\ NonNegative(history[ATTR_TOTAL])
    /\ InWindowPairs(history[ATTR_TOTAL], clock, TotalWindow) = 2
    /\ history[ATTR_TOTAL][1].st <= history[ATTR_TOTAL][2].st
    /\ history[ATTR_TOTAL][1].sy >= history[ATTR_TOTAL][2].st
    /\ Contribution(history[ATTR_TOTAL][1], history[ATTR_TOTAL][2]) > 0
    /\ Anomaly(history[ATTR_TOTAL][2], history[ATTR_TOTAL][3])
    /\ (history[ATTR_TOTAL][2].sy - history[ATTR_TOTAL][3].st) + history[ATTR_TOTAL][2].st < 0

-----------------------------------------------------------------------------
(* Claims about update_status at the level of its fetches *)

\* the step ends p's update_status call in its record step
RecordStepOf(p) ==
    /\ task[p].pc # task'[p].pc \/ cycles' = cycles + 1
    /\ task'[p].pc \in {"done", "raised"}
    /\ task'[p].last \in {"ok", "none"}

\* the step ends p's update_status call by a fetch that has failed for good
FailedFetchOf(p) ==
    /\ task[p].pc = "fetch"
    /\ task'[p].pc = "raised"
    /\ task'[p].last \in {"disconnect", "error"}

\* C14: when the fetch of a resource fails for good (retries exhausted, or
\* an error that is not retried), update_status raises and its record step
\* is not run: no step from the start of the call to the failure changes
\* any category's history.  The history changes only in the record step
\* of a call all of whose resources have been fetched and merged, and that
\* step is the call's last: it applies the record step once to the merged
\* values.
C14_FailedFetchIsNoObservation ==
    [][\A p \in Tasks :
          /\ FailedFetchOf(p)
                => ret'.op = "update_status" /\ ret'.exc # NoExc
          /\ (task[p].pc = "fetch" /\ ~RecordStepOf(p))
                => history' = history /\ full' = full /\ observed' = observed
          /\ (history' # history \/ observed' # observed)
                => /\ RecordStepOf(p)
                   /\ task[p].pc = "fetch" => task[p].todo = 1
                   /\ task'[p].todo = 0
          /\ RecordStepOf(p)
                => /\ history' = register_energy_consumption_history(values', history, clock').hist
                   /\ task'[p].pc = "raised"
                        <=> register_energy_consumption_history(values', history, clock').exc # NoExc]_vars

\* the first resource of a call has been fetched and merged, bringing
\* counters of a supporting device; the fetch of the second has failed
\* four times; nothing has been recorded
C14_Witness ==
    \E p \in Tasks :
        /\ task[p].pc = "raised"
        /\ task[p].last = "disconnect"
        /\ task[p].todo = 1
        /\ cycles = 1
        /\ ret = Outcome("update_status", "ServerDisconnectedError", None)
        /\ Supported(values)
        /\ ~ExtractionFails(values, ATTR_TOTAL)
        /\ history = EmptyDict
        /\ \A m \in Modes : full[m] = <<>>


-----------------------------------------------------------------------------
(* Two update_status calls on one appliance, interleaving at their fetches *)

\* A fetch here either succeeds or fails for good: a disconnect that is
\* retried only moves the retry counter of its own call (see SpecFetch).
Calls == {"t1", "t2"}

InitOverlap ==
    /\ values = EmptyResp
    /\ history = EmptyDict
    /\ clock = 0
    /\ ret = Outcome("init", NoExc, None)
    /\ observed = [m \in Modes |-> {}]
    /\ full = [m \in Modes |-> <<>>]
    /\ cycles = 0
    /\ ticks = 0
    /\ task = [p \in Calls |-> IdleTask]

NextOverlap ==
    \/ \E p \in Calls, n \in ResourceCounts : StartUpdate(p, n)
    \/ \E p \in Calls, resp \in FetchResponses : FetchOk(p, resp)
    \/ \E p \in Calls : FetchError(p)
    \/ TickFetch(POWER_CONSUMPTION_MAX_HISTORY + TotalWindow)

SpecOverlap == InitOverlap /\ [][NextOverlap]_vars

\* C20: when two update_status calls on the same appliance are in flight
\* at once and interleave at their fetches, the record step of each still
\* runs as one step on the values merged so far, so every category's
\* history stays ordered by non-increasing timestamp with no two
\* neighbouring entries carrying the same counters, and each refresh adds
\* at most one entry per category.
C20_OverlapKeepsHistoryWellFormed ==
    [][/\ \A m \in Modes :
             /\ Sorted(Get(history', m))
             /\ \A i \in 1..(Len(Get(history', m)) - 1) :
                   ~SameCounters(history'[m][i], history'[m][i + 1])
             /\ Len(Get(history', m)) <= Len(Get(history, m)) + 1
             /\ Len(full'[m]) <= Len(full[m]) + 1
       /\ history' # history
             => \E p \in Calls :
                   /\ RecordStepOf(p)
                   /\ history' = register_energy_consumption_history(values', history, clock').hist]_vars

\* two calls were started and both have ended in their record step, the
\* first of them while the other was suspended in a fetch; the two steps,
\* at different times, have each recorded a snapshot
C20_Witness ==
    /\ cycles = 2
    /\ \A p \in Calls : task[p].pc = "done" /\ task[p].last = "ok"
    /\ \E p \in Calls : task[p].overlapped
    /\ Len(Get(history, ATTR_TOTAL)) = 2
    /\ history[ATTR_TOTAL][1].dt > history[ATTR_TOTAL][2].dt


-----------------------------------------------------------------------------
(* Polling: successive refreshes at least PollInterval apart *)

\* the least time between two refreshes, minutes
PollInterval == 90
MaxPolls == 5

PollAdvances == {PollInterval, 2 * PollInterval}

\* refreshes of a supporting device in which the total counters change
PollResponses ==
    { [this_year |-> <<"1">>, datas |-> <<"0", "1">>,
       curr_day_cool |-> <<"0", "1">>, prev_1day_cool |-> <<"0">>,
       curr_day_heat |-> <<"0">>, prev_1day_heat |-> <<"1">>],
      [datas |-> <<"0", "2">>],
      [datas |-> <<"2", "0">>, curr_day_cool |-> <<"0">>, prev_1day_cool |-> <<"1", "1">>] }

\* d minutes after the previous refresh, update_status with every fetch
\* successful: merge, then the record step
Poll(d, resp) ==
    /\ cycles < MaxPolls
    /\ clock' = clock + d
    /\ LET vals == Update(values, resp)
           r == register_energy_consumption_history(vals, history, clock + d)
       IN  /\ values' = vals
           /\ history' = r.hist
           /\ ret' = Outcome("update_status", r.exc, None)
           /\ observed' = Recorded(vals)
           /\ full' = Unpruned(r.hist)
    /\ cycles' = cycles + 1
    /\ UNCHANGED <<ticks, task>>

NextPoll == \E d \in PollAdvances, resp \in PollResponses : Poll(d, resp)

SpecPoll == Init /\ [][NextPoll]_vars

\* C16 as stated: with refreshes at least P apart, no category's history
\* is ever longer than (3h / P) + 1.
C16_LengthAtMostQuotientPlusOne ==
    \A m \in Modes :
        Len(Get(history, m)) <= (POWER_CONSUMPTION_MAX_HISTORY \div PollInterval) + 1

\* C16 amended: with refreshes at least P apart, no category's history is
\* ever longer than floor(3h / P) + 2: at most floor(3h / P) + 1 entries
\* no older than 3 hours at the last insertion, and one anchor beyond.
C16_LengthAtMostQuotientPlusTwo ==
    \A m \in Modes :
        Len(Get(history, m)) <= (POWER_CONSUMPTION_MAX_HISTORY \div PollInterval) + 2

\* five refreshes PollInterval apart have each recorded a snapshot; the
\* oldest has been pruned and the list holds the three entries within the
\* 3 hours, the oldest of them exactly 3 hours old, and the anchor
C16_Witness ==
    /\ cycles = 5
    /\ Len(full[ATTR_TOTAL]) = 5
    /\ Len(Get(history, ATTR_TOTAL)) = (POWER_CONSUMPTION_MAX_HISTORY \div PollInterval) + 2
    /\ history[ATTR_TOTAL][1].dt = clock
    /\ StaleCount(history[ATTR_TOTAL], clock) = 1
    /\ \A i \in 1..(Len(history[ATTR_TOTAL]) - 1) :
          history[ATTR_TOTAL][i].dt - history[ATTR_TOTAL][i + 1].dt >= PollInterval


====
